---------------------------- MODULE Spec2Model ----------------------------
(***************************************************************************)
(* Model of the Architecture Documentation Generator:                      *)
(*   - the analysis pipeline of app.main up to the end of the crawl,       *)
(*   - the repository crawler fetch_all_repository_files,                  *)
(*   - the prompt assembler build_analysis_prompt,                         *)
(*   - the response parser parse_gemini_response.                          *)
(*                                                                         *)
(* A Python str is a sequence of one-character strings.  The backquote     *)
(* character is written "BQ" (one element), every other character is       *)
(* itself.                                                                 *)
(***************************************************************************)
EXTENDS Integers, Sequences, FiniteSets, TLC

VARIABLES
    pc,                \* control point of the component under analysis
    github_url,        \* app.py: the text of the URL input box
    error,             \* app.py: the st.error signal shown, "none" if none
    meta_calls,        \* the requests of validate_repository and their responses
    list_calls,        \* the paths listed by fetch_repository_contents, in order,
                       \* each with whether the remote answered 200
    fetch_calls,       \* the files requested at line 248, in order, likewise
    budget,            \* entries the remote is still going to return
    paths_to_process,  \* fetch_all_repository_files: the traversal queue
    processed_paths,   \* fetch_all_repository_files: the visited set
    current_path,      \* fetch_all_repository_files: the dequeued path
    contents,          \* fetch_all_repository_files: rest of the for loop
    structure,         \* fetch_all_repository_files: the CrawlResult
    seen,              \* the entries the for loop has taken up, in order, each
                       \* with the path whose listing returned it
    prompt_files,      \* build_analysis_prompt: the emitted file sections
    response_text,     \* parse_gemini_response: the reply text
    result             \* parse_gemini_response: the returned dict

vars == <<pc, github_url, error, meta_calls, list_calls, fetch_calls, budget,
          paths_to_process, processed_paths, current_path, contents,
          structure, seen, prompt_files, response_text, result>>

-----------------------------------------------------------------------------
(* Python str operations *)

UpperChars == <<"A","B","C","D","E","F","G","H","I","J","K","L","M","N","O","P","Q","R","S","T","U","V","W","X","Y","Z">>
LowerChars == <<"a","b","c","d","e","f","g","h","i","j","k","l","m","n","o","p","q","r","s","t","u","v","w","x","y","z">>
DigitChars == <<"0","1","2","3","4","5","6","7","8","9">>

Range(s) == {s[i] : i \in 1..Len(s)}

\* str.lower() of one character
LowerOf == [c \in Range(UpperChars) |->
               LowerChars[CHOOSE i \in 1..Len(UpperChars) : UpperChars[i] = c]]

LowerChar(c) == IF c \in DOMAIN LowerOf THEN LowerOf[c] ELSE c

\* str.lower()
Lower(s) == [i \in 1..Len(s) |-> LowerChar(s[i])]

\* s[i-1:].startswith(pat), i counted from 1
StartsAt(s, pat, i) ==
    /\ i >= 1
    /\ i + Len(pat) - 1 <= Len(s)
    /\ \A k \in 1..Len(pat) : s[i + k - 1] = pat[k]

\* the same, ignoring case (re.IGNORECASE on a literal)
StartsAtIgnoreCase(s, pat, i) == StartsAt(Lower(s), Lower(pat), i)

\* pat in s
Contains(s, pat) == \E i \in 1..(Len(s) + 1) : StartsAt(s, pat, i)

\* s.endswith(pat)
EndsWith(s, pat) == Len(pat) <= Len(s) /\ StartsAt(s, pat, Len(s) - Len(pat) + 1)

\* s[i-1:], i counted from 1
From(s, i) == SubSeq(s, i, Len(s))

\* whitespace as str.strip() and the regex class \s see it
WhiteSpace == {" ", "\n", "\t", "\r"}

\* str.strip()
Strip(s) ==
    LET keep == {i \in 1..Len(s) : s[i] \notin WhiteSpace}
    IN  IF keep = {} THEN <<>>
        ELSE SubSeq(s, CHOOSE i \in keep : \A j \in keep : i <= j,
                       CHOOSE i \in keep : \A j \in keep : i >= j)

\* s.find(c) counted from 1, 0 when absent; s.rfind(c) likewise
Find(s, cs) ==
    IF \E i \in 1..Len(s) : s[i] \in cs
    THEN CHOOSE i \in 1..Len(s) : s[i] \in cs /\ \A j \in 1..(i - 1) : s[j] \notin cs
    ELSE 0

RFind(s, c) ==
    IF \E i \in 1..Len(s) : s[i] = c
    THEN CHOOSE i \in 1..Len(s) : s[i] = c /\ \A j \in (i + 1)..Len(s) : s[j] # c
    ELSE 0

\* os.path.splitext(p)[1]: the text from the last dot of the last component,
\* empty when that component has no dot besides leading ones
SplitExt(p) ==
    LET sepIndex == RFind(p, "/")
        dotIndex == RFind(p, ".")
    IN  IF dotIndex > sepIndex
           /\ \E k \in (sepIndex + 1)..(dotIndex - 1) : p[k] # "."
        THEN From(p, dotIndex)
        ELSE <<>>

\* s.split('/')[-1]
LastSegment(s) == From(s, RFind(s, "/") + 1)

-----------------------------------------------------------------------------
(* github_analyzer_functions.py: module constants *)

CODE_EXTENSIONS == {
    <<".","p","y">>, <<".","j","s">>, <<".","t","s">>, <<".","j","s","x">>, <<".","t","s","x">>, <<".","j","a","v","a">>, <<".","c","p","p">>, <<".","c">>, <<".","h">>,
    <<".","c","s">>, <<".","p","h","p">>, <<".","r","b">>, <<".","g","o">>, <<".","r","s">>, <<".","s","w","i","f","t">>, <<".","k","t">>, <<".","s","c","a","l","a">>,
    <<".","h","t","m","l">>, <<".","c","s","s">>, <<".","s","c","s","s">>, <<".","s","a","s","s">>, <<".","l","e","s","s">>, <<".","v","u","e">>, <<".","s","v","e","l","t","e">>,
    <<".","j","s","o","n">>, <<".","x","m","l">>, <<".","y","a","m","l">>, <<".","y","m","l">>, <<".","t","o","m","l">>, <<".","i","n","i">>, <<".","c","f","g">>, <<".","m","d">>,
    <<".","t","x","t">>, <<".","d","o","c","k","e","r","f","i","l","e">>, <<".","m","a","k","e","f","i","l","e">>, <<".","g","r","a","d","l","e">>, <<".","p","r","o","p","e","r","t","i","e","s">> }

PRIORITY_FILES == {
    <<"p","a","c","k","a","g","e",".","j","s","o","n">>, <<"r","e","q","u","i","r","e","m","e","n","t","s",".","t","x","t">>, <<"c","a","r","g","o",".","t","o","m","l">>, <<"p","o","m",".","x","m","l">>,
    <<"b","u","i","l","d",".","g","r","a","d","l","e">>, <<"g","e","m","f","i","l","e">>, <<"c","o","m","p","o","s","e","r",".","j","s","o","n">>, <<"s","e","t","u","p",".","p","y">>,
    <<"r","e","a","d","m","e",".","m","d">>, <<"a","r","c","h","i","t","e","c","t","u","r","e",".","m","d">>, <<"d","e","s","i","g","n",".","m","d">>, <<"c","o","n","t","r","i","b","u","t","i","n","g",".","m","d">>,
    <<"d","o","c","k","e","r","f","i","l","e">>, <<"m","a","k","e","f","i","l","e">>, <<"c","h","a","n","g","e","l","o","g",".","m","d">>, <<"l","i","c","e","n","s","e">> }

SKIP_PATTERNS == {
    <<"t","e","s","t">>, <<"t","e","s","t","s">>, <<"_","_","t","e","s","t","s","_","_">>, <<"s","p","e","c">>, <<"s","p","e","c","s">>, <<"_","_","p","y","c","a","c","h","e","_","_">>,
    <<"n","o","d","e","_","m","o","d","u","l","e","s">>, <<".","g","i","t">>, <<".","g","i","t","h","u","b">>, <<"d","i","s","t">>, <<"b","u","i","l","d">>, <<"t","a","r","g","e","t">>,
    <<"c","o","v","e","r","a","g","e">>, <<".","c","o","v","e","r","a","g","e">>, <<".","p","y","t","e","s","t","_","c","a","c","h","e">>, <<".","t","o","x">>, <<"v","e","n","v">>, <<"e","n","v">>,
    <<".","e","n","v">>, <<"l","o","g","s">>, <<"t","m","p">>, <<"t","e","m","p">>, <<".","D","S","_","S","t","o","r","e">>, <<".","v","s","c","o","d","e">>, <<".","i","d","e","a">>,
    <<"v","e","n","d","o","r">>, <<"p","u","b","l","i","c","/","a","s","s","e","t","s">>, <<"s","t","a","t","i","c","/","a","s","s","e","t","s">>, <<"a","s","s","e","t","s","/","i","m","a","g","e","s">> }

\* the tuple of suffixes of should_skip_path
SKIP_SUFFIXES == {
    <<".","p","n","g">>, <<".","j","p","g">>, <<".","j","p","e","g">>, <<".","g","i","f">>, <<".","s","v","g">>, <<".","i","c","o">>,
    <<".","p","d","f">>, <<".","z","i","p">>, <<".","t","a","r">>, <<".","g","z">>, <<".","e","x","e">>, <<".","d","m","g">>,
    <<".","a","p","p">>, <<".","d","e","b">>, <<".","r","p","m">>, <<".","m","s","i">> }

\* a mutant of should_skip_path: no path is skipped
should_skip_path_never(path) == FALSE

\* a mutant of should_skip_path: the suffix test is left out
should_skip_path_tokens_only(path) ==
    \E skip_pattern \in SKIP_PATTERNS : Contains(Lower(path), skip_pattern)

should_skip_path(path) ==
    LET path_lower == Lower(path)
    IN  \/ \E skip_pattern \in SKIP_PATTERNS : Contains(path_lower, skip_pattern)
        \/ \E suffix \in SKIP_SUFFIXES : EndsWith(path_lower, suffix)


-----------------------------------------------------------------------------
(* The repository location *)

\* the literal head of the pattern r'github\.com/([^/]+)/([^/]+?)(?:\.git)?/?$'
RepoHost == <<"g","i","t","h","u","b",".","c","o","m","/">>

\* what may stand between the lazy repository group and the end: (?:\.git)?/?$
\* where $ also matches before a final newline
RepoTails == { <<>>, <<"/">>, <<".","g","i","t">>, <<".","g","i","t","/">>,
               <<"\n">>, <<"/","\n">>, <<".","g","i","t","\n">>, <<".","g","i","t","/","\n">> }

NoMatch == [matched |-> FALSE, owner |-> <<>>, name |-> <<>>]

\* the pattern tried at position p: the owner runs to the first slash, the
\* repository name is the shortest non-empty slash-free text that leaves a tail
RepoMatchAt(url, p) ==
    LET rest  == From(url, p + Len(RepoHost))
        slash == Find(rest, {"/"})
        after == From(rest, slash + 1)
        ns    == {n \in 1..Len(after) :
                    /\ "/" \notin Range(SubSeq(after, 1, n))
                    /\ From(after, n + 1) \in RepoTails}
    IN  IF ~StartsAt(url, RepoHost, p) \/ slash <= 1 \/ ns = {}
        THEN NoMatch
        ELSE [matched |-> TRUE,
              owner   |-> SubSeq(rest, 1, slash - 1),
              name    |-> SubSeq(after, 1, CHOOSE n \in ns : \A k \in ns : n <= k)]

\* re.search(pattern, github_url): the leftmost position that matches
RepoUrlMatch(url) ==
    LET ps == {p \in 1..Len(url) : RepoMatchAt(url, p).matched}
    IN  IF ps = {} THEN NoMatch
        ELSE RepoMatchAt(url, CHOOSE p \in ps : \A q \in ps : p <= q)

\* f"https://api.github.com/repos/{owner}/{repo_name}"
ApiUrl(owner, repo_name) == <<"h","t","t","p","s",":","/","/","a","p","i",".","g","i","t","h","u","b",".","c","o","m","/","r","e","p","o","s","/">> \o owner \o <<"/">> \o repo_name

\* a mutant of validate_repository: the status code is not looked at
validate_repository_any_status(url, response) ==
    LET m == RepoUrlMatch(url)
    IN  IF ~m.matched \/ response.raised THEN NoMatch ELSE m

\* validate_repository lines 76-109 once the response is in: the repository
\* information, or None (NoMatch) when the request raised or was not answered 200
validate_repository(url, response) ==
    LET m == RepoUrlMatch(url)
    IN  IF ~m.matched THEN NoMatch
        ELSE IF response.raised THEN NoMatch
        ELSE IF response.status_code # 200 THEN NoMatch
        ELSE m

\* urllib.parse.urlparse(url): tabs and newlines are removed; the scheme is split off at the first colon when a
\* letter starts the url and only scheme characters precede the colon; the netloc
\* follows "//" up to the first of / ? #; the path ends at the first # or ?
SchemeChars == Range(LowerChars) \cup Range(UpperChars) \cup Range(DigitChars) \cup {"+", "-", "."}

NotUnsafe(c) == c \notin {"\t", "\r", "\n"}

urlparse(url0) ==
    LET url      == SelectSeq(url0, NotUnsafe)
        colon    == Find(url, {":"})
        scheme   == /\ colon > 1
                    /\ url[1] \in Range(LowerChars) \cup Range(UpperChars)
                    /\ \A k \in 1..(colon - 1) : url[k] \in SchemeChars
        u1       == IF scheme THEN From(url, colon + 1) ELSE url
        slashes  == StartsAt(u1, <<"/","/">>, 1)
        afterNet == IF slashes THEN From(u1, 3) ELSE u1
        delim    == Find(afterNet, {"/", "?", "#"})
        netloc   == IF ~slashes THEN <<>>
                    ELSE IF delim = 0 THEN afterNet ELSE SubSeq(afterNet, 1, delim - 1)
        u2       == IF ~slashes THEN u1
                    ELSE IF delim = 0 THEN <<>> ELSE From(afterNet, delim)
        cut      == Find(u2, {"#", "?"})
    IN  [netloc |-> netloc,
         path   |-> IF cut = 0 THEN u2 ELSE SubSeq(u2, 1, cut - 1)]

\* s.strip('/')
StripSlashes(s) ==
    LET keep == {i \in 1..Len(s) : s[i] # "/"}
    IN  IF keep = {} THEN <<>>
        ELSE SubSeq(s, CHOOSE i \in keep : \A j \in keep : i <= j,
                       CHOOSE i \in keep : \A j \in keep : i >= j)

\* the character class of r'^[a-zA-Z0-9\-_.]+$'
NameChars == Range(LowerChars) \cup Range(UpperChars) \cup Range(DigitChars) \cup {"-", "_", "."}

\* re.match(r'^[a-zA-Z0-9\-_.]+$', s); $ also matches before a final newline
NameMatch(s) ==
    LET body == IF Len(s) > 0 /\ s[Len(s)] = "\n" THEN SubSeq(s, 1, Len(s) - 1) ELSE s
    IN  Len(body) > 0 /\ \A i \in 1..Len(body) : body[i] \in NameChars

\* utils.validate_github_url
validate_github_url(url) ==
    LET parsed     == urlparse(url)
        stripped   == StripSlashes(parsed.path)
        slash      == Find(stripped, {"/"})
        owner      == SubSeq(stripped, 1, slash - 1)
        repo0      == From(stripped, slash + 1)
        repo       == IF EndsWith(repo0, <<".","g","i","t">>)
                      THEN SubSeq(repo0, 1, Len(repo0) - 4) ELSE repo0
    IN  /\ url # <<>>
        /\ parsed.netloc = <<"g","i","t","h","u","b",".","c","o","m">>
        /\ slash # 0                                \* at least two parts
        /\ "/" \notin Range(repo0)                  \* at most two parts
        /\ owner # <<>> /\ repo0 # <<>>
        /\ NameMatch(owner) /\ NameMatch(repo)


-----------------------------------------------------------------------------
(* The remote: what the three GitHub calls may answer *)

\* the most entries all listings of one crawl return together
MaxEntries == 3

\* the same for a crawl that follows the validation of an arbitrary URL
MaxEntriesAfterValidation == 2

\* the URLs typed into the input box
URLs == {
    <<>>,
    <<"h","t","t","p","s",":","/","/","g","i","t","h","u","b",".","c","o","m","/","a","c","m","e","/","w","i","d","g","e","t","s">>,
    <<"h","t","t","p","s",":","/","/","g","i","t","h","u","b",".","c","o","m","/","a","c","m","e","/","w","i","d","g","e","t","s",".","g","i","t","/">>,
    <<"h","t","t","p","s",":","/","/","g","i","t","h","u","b",".","c","o","m","/","a","c","m","e","/","w","i","d","$","g","e","t","s">>,
    <<"h","t","t","p","s",":","/","/","n","o","t","g","i","t","h","u","b",".","c","o","m","/","a","c","m","e","/","w","i","d","g","e","t","s">>,
    <<"h","t","t","p","s",":","/","/","g","i","t","l","a","b",".","c","o","m","/","a","c","m","e","/","w","i","d","g","e","t","s">>,
    <<"h","t","t","p","s",":","/","/","g","i","t","h","u","b",".","c","o","m","/","a","c","m","e">>,
    <<"h","t","t","p","s",":","/","/","g","i","t","h","u","b",".","c","o","m","/","a","c","m","e","/","w","i","d","g","e","t","s","/","t","r","e","e","/","m","a","i","n">> }

\* a response of requests: an exception raised, or a status code
HttpResponses == {
    [raised |-> TRUE,  status_code |-> 0],
    [raised |-> FALSE, status_code |-> 200],
    [raised |-> FALSE, status_code |-> 404] }

\* the entry descriptors a listing may carry; the download_url of a file
\* entry locates the file by its path
Entry(path, name, type, size) ==
    [path |-> path, name |-> name, type |-> type, size |-> size]

Universe == {
    Entry(<<"s","r","c">>,          <<"s","r","c">>,          "dir",  0),
    Entry(<<"s","r","c","/","c","o","r","e">>,     <<"c","o","r","e">>,         "dir",  0),
    Entry(<<"t","e","s","t">>,         <<"t","e","s","t">>,         "dir",  0),
    Entry(<<"R","E","A","D","M","E",".","m","d">>,    <<"R","E","A","D","M","E",".","m","d">>,    "file", 500),
    Entry(<<"s","r","c","/","a","p","p",".","p","y">>,   <<"a","p","p",".","p","y">>,       "file", 200000),
    Entry(<<"t","e","s","t","/","f","o","o",".","p","y">>,  <<"f","o","o",".","p","y">>,       "file", 200),
    Entry(<<"l","o","g","o",".","P","N","G">>,     <<"l","o","g","o",".","P","N","G">>,     "file", 100),
    Entry(<<"d","a","t","a",".","b","i","n">>,     <<"d","a","t","a",".","b","i","n">>,     "file", 100000),
    Entry(<<"n","o","t","e","s">>,        <<"n","o","t","e","s">>,        "file", 99999),
    Entry(<<"L","I","C","E","N","S","E">>,      <<"L","I","C","E","N","S","E">>,      "file", 150000),
    Entry(<<"b","u","i","l","d",".","g","r","a","d","l","e">>, <<"b","u","i","l","d",".","g","r","a","d","l","e">>, "file", 300),
    Entry(<<"v","e","n","d","o","r","e","d">>,     <<"v","e","n","d","o","r","e","d">>,     "submodule", 0) }

\* response.json() of a 200 listing: a list of at most n entries, or one object
ListingBodies(n) ==
    [is_list : {TRUE}, items : UNION {[1..k -> Universe] : k \in 0..n}]
    \cup [is_list : {FALSE}, items : IF n = 0 THEN {} ELSE [1..1 -> Universe]]

\* the most entries the listings of a repository of known content return in all
MaxListed == 8

\* repositories of known content, each a mapping from a directory path to the
\* entries its listing holds.  The first is the repository of the crawl
\* scenario, the second a tree two levels deep, the third has listings that
\* return a directory twice, a directory in its own listing and two
\* directories in each other's listings
ScenarioUrl == <<"h","t","t","p","s",":","/","/","g","i","t","h","u","b",".","c","o","m","/","a","c","m","e","/","s","c","e","n","a","r","i","o">>
TreeUrl == <<"h","t","t","p","s",":","/","/","g","i","t","h","u","b",".","c","o","m","/","a","c","m","e","/","t","r","e","e">>
CycleUrl == <<"h","t","t","p","s",":","/","/","g","i","t","h","u","b",".","c","o","m","/","a","c","m","e","/","c","y","c","l","e">>

ScenarioRepository ==
    ( <<>>      :> << Entry(<<"s","r","c">>, <<"s","r","c">>, "dir", 0),
                      Entry(<<"t","e","s","t">>, <<"t","e","s","t">>, "dir", 0),
                      Entry(<<"R","E","A","D","M","E",".","m","d">>, <<"R","E","A","D","M","E",".","m","d">>, "file", 500) >> ) @@
    ( <<"s","r","c">>   :> << Entry(<<"s","r","c","/","a","p","p",".","p","y">>, <<"a","p","p",".","p","y">>, "file", 200) >> ) @@
    ( <<"t","e","s","t">>  :> << Entry(<<"t","e","s","t","/","f","o","o",".","p","y">>, <<"f","o","o",".","p","y">>, "file", 200) >> )

TreeRepository ==
    ( <<>>          :> << Entry(<<"a","p","p">>, <<"a","p","p">>, "dir", 0),
                          Entry(<<"l","i","b">>, <<"l","i","b">>, "dir", 0) >> ) @@
    ( <<"a","p","p">>       :> << Entry(<<"a","p","p","/","a","p","i">>, <<"a","p","i">>, "dir", 0),
                          Entry(<<"a","p","p","/","m","a","i","n",".","p","y">>, <<"m","a","i","n",".","p","y">>, "file", 300) >> ) @@
    ( <<"l","i","b">>       :> << Entry(<<"l","i","b","/","u","t","i","l">>, <<"u","t","i","l">>, "dir", 0) >> ) @@
    ( <<"a","p","p","/","a","p","i">>   :> << Entry(<<"a","p","p","/","a","p","i","/","v","1",".","p","y">>, <<"v","1",".","p","y">>, "file", 400) >> ) @@
    ( <<"l","i","b","/","u","t","i","l">>  :> << >> )

CycleRepository ==
    ( <<>>     :> << Entry(<<"a","p","p">>, <<"a","p","p">>, "dir", 0),
                     Entry(<<"a","p","p">>, <<"a","p","p">>, "dir", 0),
                     Entry(<<"l","i","b">>, <<"l","i","b">>, "dir", 0) >> ) @@
    ( <<"a","p","p">>  :> << Entry(<<"l","i","b">>, <<"l","i","b">>, "dir", 0),
                     Entry(<<"a","p","p">>, <<"a","p","p">>, "dir", 0) >> ) @@
    ( <<"l","i","b">>  :> << Entry(<<"a","p","p">>, <<"a","p","p">>, "dir", 0) >> )

Repositories ==
    (ScenarioUrl :> ScenarioRepository) @@ (TreeUrl :> TreeRepository) @@
    (CycleUrl :> CycleRepository)

\* the entries of a listing in every order the remote may return them in
Orders(entries) ==
    {[i \in 1..Len(entries) |-> entries[order[i]]] :
        order \in Permutations(1..Len(entries))}

\* response.json() of a 200 listing of path: for a repository of known content
\* its entries in any order, as long as the remote has that many entries left
\* to return; for any other repository whatever ListingBodies allows
RemoteListings(url, path, n) ==
    IF url \in DOMAIN Repositories
    THEN LET entries == IF path \in DOMAIN Repositories[url]
                        THEN Repositories[url][path] ELSE <<>>
         IN  IF Len(entries) > n THEN {}
             ELSE [is_list : {TRUE}, items : Orders(entries)]
    ELSE ListingBodies(n)

\* file_response.text
RemoteTexts == { <<"x"," ","="," ","1","\n">> }

-----------------------------------------------------------------------------
(* github_analyzer_functions.py: helpers of the crawl *)

type_mapping == [ext \in {
        <<".","p","y">>, <<".","j","s">>, <<".","t","s">>, <<".","j","s","x">>, <<".","t","s","x">>, <<".","j","a","v","a">>, <<".","c","p","p">>, <<".","c">>,
        <<".","h">>, <<".","c","s">>, <<".","p","h","p">>, <<".","r","b">>, <<".","g","o">>, <<".","r","s">>, <<".","s","w","i","f","t">>, <<".","k","t">>,
        <<".","h","t","m","l">>, <<".","c","s","s">>, <<".","s","c","s","s">>, <<".","j","s","o","n">>, <<".","m","d">>, <<".","y","a","m","l">>, <<".","y","m","l">>,
        <<".","d","o","c","k","e","r","f","i","l","e">>, <<".","m","a","k","e","f","i","l","e">> } |->
    CASE ext = <<".","p","y">>    -> "Python"
      [] ext = <<".","j","s">>    -> "JavaScript"
      [] ext = <<".","t","s">>    -> "TypeScript"
      [] ext = <<".","j","s","x">>   -> "React JSX"
      [] ext = <<".","t","s","x">>   -> "React TSX"
      [] ext = <<".","j","a","v","a">>  -> "Java"
      [] ext = <<".","c","p","p">>   -> "C++"
      [] ext = <<".","c">>     -> "C"
      [] ext = <<".","h">>     -> "Header"
      [] ext = <<".","c","s">>    -> "C#"
      [] ext = <<".","p","h","p">>   -> "PHP"
      [] ext = <<".","r","b">>    -> "Ruby"
      [] ext = <<".","g","o">>    -> "Go"
      [] ext = <<".","r","s">>    -> "Rust"
      [] ext = <<".","s","w","i","f","t">> -> "Swift"
      [] ext = <<".","k","t">>    -> "Kotlin"
      [] ext = <<".","h","t","m","l">>  -> "HTML"
      [] ext = <<".","c","s","s">>   -> "CSS"
      [] ext = <<".","s","c","s","s">>  -> "SCSS"
      [] ext = <<".","j","s","o","n">>  -> "JSON"
      [] ext = <<".","m","d">>    -> "Markdown"
      [] ext = <<".","y","a","m","l">>  -> "YAML"
      [] ext = <<".","y","m","l">>   -> "YAML"
      [] ext = <<".","d","o","c","k","e","r","f","i","l","e">> -> "Docker"
      [] ext = <<".","m","a","k","e","f","i","l","e">>   -> "Makefile"]

get_file_type(filename) ==
    LET ext == Lower(SplitExt(filename))
    IN  IF ext \in DOMAIN type_mapping THEN type_mapping[ext] ELSE "Other"

\* the remote answered the request with 200
Answered(response) == response = [raised |-> FALSE, status_code |-> 200]

\* a mutant of fetch_repository_contents: the body is read whatever the status
fetch_repository_contents_any_status(response, body) ==
    IF response.raised THEN <<>> ELSE body.items

\* fetch_repository_contents lines 147-163: [] unless the call returns 200; a
\* body that is one object and not a list is wrapped into a list
fetch_repository_contents(response, body) ==
    IF response.raised THEN <<>>
    ELSE IF response.status_code # 200 THEN <<>>
    ELSE IF ~body.is_list THEN <<body.items[1]>>
    ELSE body.items

\* a mutant of InProcessed: only the root counts as visited
InProcessedRootOnly(path, processed) == path = <<>> /\ path \in processed

\* line 197
InProcessed(path, processed) == path \in processed

\* a dict kept in insertion order, as a sequence of [key, value] items:
\* d[k] = v keeps the position of a key already there
DictKeys(d) == {d[i].key : i \in 1..Len(d)}

DictSet(d, k, v) ==
    IF k \in DictKeys(d)
    THEN [i \in 1..Len(d) |-> IF d[i].key = k THEN [key |-> k, value |-> v] ELSE d[i]]
    ELSE Append(d, [key |-> k, value |-> v])

DictGet(d, k) == d[CHOOSE i \in 1..Len(d) : d[i].key = k].value

\* a mutant of CountUp: the count of an extension is not read back
CountUpFromZero(languages, ext) ==
    [e \in DOMAIN languages \cup {ext} |-> IF e = ext THEN 1 ELSE languages[e]]

\* languages.get(ext, 0) + 1
CountUp(languages, ext) ==
    [e \in DOMAIN languages \cup {ext} |->
        IF e = ext THEN (IF ext \in DOMAIN languages THEN languages[ext] ELSE 0) + 1
        ELSE languages[e]]

EmptyLanguages == [e \in {} |-> 0]

\* lines 177-188
EmptyStructure ==
    [files |-> <<>>, directories |-> <<>>, key_files |-> <<>>,
     statistics |-> [total_files |-> 0, code_files |-> 0, analyzed_files |-> 0,
                     skipped_files |-> 0, languages |-> EmptyLanguages]]

\* [f.lower() for f in PRIORITY_FILES], lines 240 and 287
PriorityNames == {Lower(f) : f \in PRIORITY_FILES}

\* a mutant of Enqueue: the path is put at the front of the queue
EnqueueFront(queue, path) == <<path>> \o queue

\* paths_to_process.append(content['path']), line 218
Enqueue(queue, path) == Append(queue, path)

\* a mutant of CountSkipped: the counter records that something was skipped
CountSkippedOnce(st) == [st EXCEPT !.statistics.skipped_files = 1]

\* lines 203 and 213
CountSkipped(st) == [st EXCEPT !.statistics.skipped_files = @ + 1]

\* a mutant of should_analyze: a file of 100000 bytes counts as small
should_analyze_at_most(content) ==
    \/ Lower(content.name) \in PriorityNames
    \/ Lower(SplitExt(content.name)) \in CODE_EXTENSIONS
    \/ content.size <= 100000

\* lines 239-243
should_analyze(content) ==
    \/ Lower(content.name) \in PriorityNames
    \/ Lower(SplitExt(content.name)) \in CODE_EXTENSIONS
    \/ content.size < 100000

\* lines 222-236: the FileRecord and the counters of one file entry
RecordFile(st, content) ==
    LET ext == Lower(SplitExt(content.name))
        s   == st.statistics
    IN  [st EXCEPT
          !.files = Append(@, [path |-> content.path, name |-> content.name,
                               size |-> content.size,
                               type |-> get_file_type(content.name)]),
          !.statistics =
              [s EXCEPT
                !.total_files = @ + 1,
                !.code_files  = IF ext \in CODE_EXTENSIONS THEN @ + 1 ELSE @,
                !.languages   = IF ext \in CODE_EXTENSIONS THEN CountUp(@, ext) ELSE @]]

\* lines 249-256: the fetched map and the counter after a response
StoreFetched(st, content, response, text) ==
    IF ~response.raised /\ response.status_code = 200
    THEN [st EXCEPT
           !.key_files = DictSet(@, content.path,
                                 [content |-> text, size |-> content.size,
                                  type |-> Lower(SplitExt(content.name))]),
           !.statistics.analyzed_files = @ + 1]
    ELSE st


-----------------------------------------------------------------------------
(* build_analysis_prompt: the file sections *)

\* line 292: sorted_files[:25]
MaxPromptFiles == 25

\* line 294: content[:15000]
PreviewChars == 15000

\* line 296
TruncationMarker == <<".",".",".","\n","[","F","i","l","e"," ","t","r","u","n","c","a","t","e","d"," ","f","o","r"," ","a","n","a","l","y","s","i","s","]">>

\* line 287: the name is the last segment of the lowercased path
NotPriority(path) == LastSegment(Lower(path)) \notin PriorityNames

\* lines 286-289: the sort key of one item of key_files
SortKey(item) == [not_priority |-> NotPriority(item.key), size |-> item.value.size]

\* a mutant of KeyLess: the sizes alone are compared
KeyLessBySize(a, b) == a.size < b.size

\* two keys compared as Python compares tuples, False < True
KeyLess(a, b) ==
    \/ ~a.not_priority /\ b.not_priority
    \/ a.not_priority = b.not_priority /\ a.size < b.size

\* sorted(): stable, an item goes behind the items of smaller key and behind the
\* earlier items of equal key
Sorted(items) ==
    LET n    == Len(items)
        \* SubSeq makes TLC compute the sequence once
        keys == SubSeq([i \in 1..n |-> SortKey(items[i])], 1, n)
        rank == SubSeq([i \in 1..n |-> Cardinality({j \in 1..n :
                        \/ KeyLess(keys[j], keys[i])
                        \/ ~KeyLess(keys[i], keys[j]) /\ j < i}) + 1], 1, n)
    IN  [r \in 1..n |-> items[CHOOSE i \in 1..n : rank[i] = r]]

\* a mutant of ContentPreview: the slice is one character too long
ContentPreviewOneMore(content) ==
    IF Len(content) > PreviewChars
    THEN SubSeq(content, 1, PreviewChars + 1) \o TruncationMarker
    ELSE SubSeq(content, 1, Len(content))

\* lines 294-296
ContentPreview(content) ==
    IF Len(content) > PreviewChars
    THEN SubSeq(content, 1, PreviewChars) \o TruncationMarker
    ELSE SubSeq(content, 1, Len(content))

\* lines 293-297: the section of one file
FileSection(item) ==
    [path |-> item.key,
     text |-> <<"\n","#","#","#"," ">> \o item.key \o <<":","\n">>
              \o <<"BQ","BQ","BQ">> \o item.value.type \o <<"\n">>
              \o ContentPreview(item.value.content) \o <<"\n","BQ","BQ","BQ","\n">>]

\* lines 284-297: the sections of key_files_content, in order
FileSections(repo_structure) ==
    LET sorted_files == Sorted(repo_structure.key_files)
        taken == SubSeq(sorted_files, 1,
                        IF Len(sorted_files) < MaxPromptFiles
                        THEN Len(sorted_files) ELSE MaxPromptFiles)
    IN  [i \in 1..Len(taken) |-> FileSection(taken[i])]

-----------------------------------------------------------------------------
(* parse_gemini_response *)

\* lines 377-385
EmptyResult ==
    [overview |-> <<>>, architecture |-> <<>>, modules |-> <<>>,
     data_flow |-> <<>>, design_patterns |-> <<>>,
     architecture_diagram |-> <<>>, data_flow_diagram |-> <<>>]

\* the keys of sections, lines 388-396, in order
Fields == <<"overview", "architecture", "modules", "data_flow", "design_patterns",
            "architecture_diagram", "data_flow_diagram">>

\* the header literals of the seven patterns
Headers == <<<<"#","#","#"," ","1","."," ","O","V","E","R","V","I","E","W">>,
             <<"#","#","#"," ","2","."," ","A","R","C","H","I","T","E","C","T","U","R","E">>,
             <<"#","#","#"," ","3","."," ","M","O","D","U","L","E","S">>,
             <<"#","#","#"," ","4","."," ","D","A","T","A","_","F","L","O","W">>,
             <<"#","#","#"," ","5","."," ","D","E","S","I","G","N","_","P","A","T","T","E","R","N","S">>,
             <<"#","#","#"," ","6","."," ","M","E","R","M","A","I","D","_","A","R","C","H","I","T","E","C","T","U","R","E","_","D","I","A","G","R","A","M">>,
             <<"#","#","#"," ","7","."," ","M","E","R","M","A","I","D","_","D","A","T","A","_","F","L","O","W","_","D","I","A","G","R","A","M">>>>

\* the fence literals of the two diagram patterns
FenceOpen == <<"BQ","BQ","BQ","m","e","r","m","a","i","d">>
FenceClose == <<"\n","BQ","BQ","BQ">>

\* the literals as re.IGNORECASE compares them
LowerHeaders == SubSeq([i \in 1..7 |-> SubSeq(Lower(Headers[i]), 1, Len(Headers[i]))], 1, 7)
LowerFenceOpen == SubSeq(Lower(FenceOpen), 1, Len(FenceOpen))

NoGroup == [matched |-> FALSE, group |-> <<>>]

\* the end of \s* taken greedily from position a: the first position at or
\* after a that holds no whitespace
WsEnd(text, a) ==
    CHOOSE z \in a..(Len(text) + 1) :
        /\ z = Len(text) + 1 \/ text[z] \notin WhiteSpace
        /\ \A j \in a..(z - 1) : text[j] \in WhiteSpace

Least(S) == CHOOSE x \in S : \A y \in S : x <= y
Greatest(S) == CHOOSE x \in S : \A y \in S : x >= y

\* (?=<header i+1>|$) at position e; $ holds at the end and before a final newline
ProseLookahead(text, lower, i, e) ==
    \/ StartsAt(lower, LowerHeaders[i + 1], e)
    \/ e = Len(text) + 1
    \/ e = Len(text) /\ text[e] = "\n"

\* a prose pattern, lines 389-393, tried at position p of text (lower is the
\* lowercased text): <header i>\s*\n(.*?)(?=<header i+1>|$).  \s* gives back
\* what it took until a newline follows it, so the group starts behind the last
\* newline of the whitespace after the header; the lazy group ends at the first
\* position where the lookahead holds
ProseAt(text, lower, i, p) ==
    LET a   == p + Len(Headers[i])
        z   == WsEnd(text, a)
        nls == {q \in a..(z - 1) : text[q] = "\n"}
        g   == Greatest(nls) + 1
        e   == Least({x \in g..(Len(text) + 1) : ProseLookahead(text, lower, i, x)})
    IN  IF ~StartsAt(lower, LowerHeaders[i], p) \/ nls = {}
        THEN NoGroup
        ELSE [matched |-> TRUE, group |-> SubSeq(text, g, e - 1)]

\* a diagram pattern, lines 394-395, tried at position p:
\* <header k>\s*\n```mermaid\s*\n(.*?)\n```.  The fence stands right behind a
\* newline that ends the whitespace after the header; of the newlines in the
\* whitespace after the fence, the last one that still has a closing \n```
\* behind it ends \s*\n, and the lazy group ends at the first closing \n```
DiagramAt(text, lower, k, p) ==
    LET a     == p + Len(Headers[k])
        z     == WsEnd(text, a)
        b     == z + Len(FenceOpen)
        z2    == WsEnd(text, b)
        Closes(g) == {x \in g..Len(text) : StartsAt(text, FenceClose, x)}
        cands == {q \in b..(z2 - 1) : text[q] = "\n" /\ Closes(q + 1) # {}}
        g     == Greatest(cands) + 1
    IN  IF \/ ~StartsAt(lower, LowerHeaders[k], p)
           \/ z = a
           \/ text[z - 1] # "\n"
           \/ ~StartsAt(lower, LowerFenceOpen, z)
           \/ cands = {}
        THEN NoGroup
        ELSE [matched |-> TRUE, group |-> SubSeq(text, g, Least(Closes(g)) - 1)]

PatternAt(text, lower, i, p) ==
    IF i <= 5 THEN ProseAt(text, lower, i, p) ELSE DiagramAt(text, lower, i, p)

\* re.search(pattern, response_text, re.DOTALL | re.IGNORECASE), line 399: the
\* match at the leftmost position that has one
\* (hs holds the positions of the character every pattern begins with)
Search(text, lower, hs, i) ==
    LET ps == {p \in hs : PatternAt(text, lower, i, p).matched}
    IN  IF ps = {} THEN NoGroup ELSE PatternAt(text, lower, i, Least(ps))

\* a mutant of Fallback: the fallback adds to what the dict of an earlier call
\* holds
FallbackOnEarlier(fields, response) ==
    IF \A i \in 1..7 : fields[Fields[i]] = <<>>
    THEN [fields EXCEPT !.overview = result.overview \o response]
    ELSE fields

\* a mutant of Fallback: the fallback returns the dict of line 411
FallbackOverviewOnly(fields, response) ==
    IF \A i \in 1..7 : fields[Fields[i]] = <<>>
    THEN [overview |-> response]
    ELSE fields

\* a mutant of Fallback: the reply is trimmed like the sections
FallbackTrimmed(fields, response) ==
    IF \A i \in 1..7 : fields[Fields[i]] = <<>>
    THEN [fields EXCEPT !.overview = Strip(response)]
    ELSE fields

\* lines 404-405
Fallback(fields, response) ==
    IF \A i \in 1..7 : fields[Fields[i]] = <<>>
    THEN [fields EXCEPT !.overview = response]
    ELSE fields

\* a mutant of Extract: the group is not trimmed
ExtractUntrimmed(text, lower, hs, i) == Search(text, lower, hs, i).group

\* lines 398-401: the trimmed group of the field's pattern, '' without a match
Extract(text, lower, hs, i) ==
    LET m == Search(text, lower, hs, i)
    IN  IF m.matched THEN Strip(m.group) ELSE <<>>

\* lines 376-407
parse_gemini_response(text) ==
    LET lower == SubSeq(Lower(text), 1, Len(text))
        hs    == {p \in 1..Len(text) : text[p] = "#"}
    IN  Fallback([overview             |-> Extract(text, lower, hs, 1),
                  architecture         |-> Extract(text, lower, hs, 2),
                  modules              |-> Extract(text, lower, hs, 3),
                  data_flow            |-> Extract(text, lower, hs, 4),
                  design_patterns      |-> Extract(text, lower, hs, 5),
                  architecture_diagram |-> Extract(text, lower, hs, 6),
                  data_flow_diagram    |-> Extract(text, lower, hs, 7)],
                 text)

-----------------------------------------------------------------------------
(* The pipeline of app.main and the crawl *)

\* app.py lines 75-107: the URL is checked and the repository looked up
MainValidate ==
    /\ pc = "main"
    /\ LET m == RepoUrlMatch(github_url) IN
       IF github_url = <<>>
       THEN /\ error' = "missing_url"
            /\ pc' = "returned"
            /\ UNCHANGED meta_calls
       ELSE IF ~m.matched
       THEN /\ error' = "not_accessible"
            /\ pc' = "returned"
            /\ UNCHANGED meta_calls
       ELSE \E response \in HttpResponses :
            /\ meta_calls' = Append(meta_calls, [url |-> ApiUrl(m.owner, m.name),
                                                 response |-> response])
            /\ IF validate_repository(github_url, response).matched
               THEN pc' = "fetch_all" /\ error' = "none"
               ELSE pc' = "returned" /\ error' = "not_accessible"
    /\ UNCHANGED <<github_url, list_calls, fetch_calls, budget, paths_to_process,
                   processed_paths, current_path, contents, structure, seen,
                   prompt_files, response_text, result>>

\* the match of lines 169-170 for each location a crawl is started with
RepoUrlMatches == [url \in URLs \cup DOMAIN Repositories |-> RepoUrlMatch(url)]

\* fetch_all_repository_files lines 167-192
FetchAllStart ==
    /\ pc = "fetch_all"
    /\ IF RepoUrlMatches[github_url].matched
       THEN /\ structure' = EmptyStructure
            /\ paths_to_process' = << <<>> >>
            /\ processed_paths' = {}
            /\ pc' = "while"
            /\ UNCHANGED error
       ELSE /\ error' = "exception"
            /\ pc' = "returned"
            /\ UNCHANGED <<structure, paths_to_process, processed_paths>>
    /\ UNCHANGED <<github_url, meta_calls, list_calls, fetch_calls, budget,
                   current_path, contents, seen, prompt_files, response_text, result>>

\* one pass of the while loop up to the for loop, lines 194-206
WhileStep ==
    /\ pc = "while"
    /\ IF paths_to_process = <<>>
       THEN /\ pc' = "crawled"
            /\ UNCHANGED <<paths_to_process, processed_paths, current_path,
                           contents, structure, list_calls, budget>>
       ELSE LET path == Head(paths_to_process) IN
            /\ paths_to_process' = Tail(paths_to_process)
            /\ current_path' = path
            /\ IF InProcessed(path, processed_paths)
               THEN /\ pc' = "while"
                    /\ UNCHANGED <<processed_paths, contents, structure,
                                   list_calls, budget>>
               ELSE /\ processed_paths' = processed_paths \cup {path}
                    /\ IF path # <<>> /\ should_skip_path(path)
                       THEN /\ structure' = CountSkipped(structure)
                            /\ pc' = "while"
                            /\ UNCHANGED <<contents, list_calls, budget>>
                       ELSE \E response \in HttpResponses :
                            \E body \in RemoteListings(github_url, path, budget) :
                            LET listed == fetch_repository_contents(response, body) IN
                            /\ list_calls' = Append(list_calls,
                                   [path |-> path, ok |-> Answered(response)])
                            /\ contents' = listed
                            /\ budget' = budget - Len(listed)
                            /\ pc' = IF listed = <<>> THEN "while" ELSE "for"
                            /\ UNCHANGED structure
    /\ UNCHANGED <<github_url, error, meta_calls, fetch_calls, seen,
                   prompt_files, response_text, result>>

\* one pass of the for loop, lines 208-258
ForStep ==
    /\ pc = "for"
    /\ LET content == Head(contents) IN
       /\ IF should_skip_path(content.path)
          THEN /\ structure' = CountSkipped(structure)
               /\ UNCHANGED <<paths_to_process, fetch_calls>>
          ELSE IF content.type = "dir"
          THEN /\ structure' = [structure EXCEPT !.directories = Append(@, content.path)]
               /\ paths_to_process' = Enqueue(paths_to_process, content.path)
               /\ UNCHANGED fetch_calls
          ELSE IF content.type = "file"
          THEN IF should_analyze(content)
               THEN \E response \in HttpResponses : \E text \in RemoteTexts :
                    /\ fetch_calls' = Append(fetch_calls,
                           [path |-> content.path, ok |-> Answered(response)])
                    /\ structure' = StoreFetched(RecordFile(structure, content),
                                                 content, response, text)
                    /\ UNCHANGED paths_to_process
               ELSE /\ structure' = RecordFile(structure, content)
                    /\ UNCHANGED <<paths_to_process, fetch_calls>>
          ELSE UNCHANGED <<structure, paths_to_process, fetch_calls>>
       /\ seen' = Append(seen, [from |-> current_path, entry |-> content])
       /\ contents' = Tail(contents)
       /\ pc' = IF Tail(contents) = <<>> THEN "while" ELSE "for"
    /\ UNCHANGED <<github_url, error, meta_calls, list_calls, budget,
                   processed_paths, current_path, prompt_files, response_text, result>>

\* analyze_repository_with_ai line 425: the prompt is built from the CrawlResult
BuildPrompt ==
    /\ pc = "crawled"
    /\ prompt_files' = FileSections(structure)
    /\ pc' = "prompted"
    /\ UNCHANGED <<github_url, error, meta_calls, list_calls, fetch_calls, budget,
                   paths_to_process, processed_paths, current_path, contents,
                   structure, seen, response_text, result>>

\* nothing has been requested or queued yet
NoCalls ==
    /\ error = "none"
    /\ meta_calls = <<>> /\ list_calls = <<>> /\ fetch_calls = <<>>
    /\ paths_to_process = <<>> /\ processed_paths = {}
    /\ current_path = <<>> /\ contents = <<>>
    /\ seen = <<>>

\* no reply has been parsed yet
NoReply ==
    /\ response_text = <<>>
    /\ result = EmptyResult

Idle ==
    /\ NoCalls
    /\ structure = EmptyStructure
    /\ prompt_files = <<>>
    /\ NoReply

\* the Analyze button is pressed with any of the URLs in the box
Init ==
    /\ pc = "main"
    /\ github_url \in URLs
    /\ budget = MaxEntriesAfterValidation
    /\ Idle

Crawl == FetchAllStart \/ WhileStep \/ ForStep \/ BuildPrompt

Next == MainValidate \/ Crawl

Spec == Init /\ [][Next]_vars

\* fetch_all_repository_files is called for a repository that was found
InitCrawl ==
    /\ pc = "fetch_all"
    /\ github_url = <<"h","t","t","p","s",":","/","/","g","i","t","h","u","b",".","c","o","m","/","a","c","m","e","/","w","i","d","g","e","t","s">>
    /\ budget = MaxEntries
    /\ Idle

NextCrawl == Crawl

SpecCrawl == InitCrawl /\ [][NextCrawl]_vars

\* fetch_all_repository_files is called for a repository of known content
InitRepository ==
    /\ pc = "fetch_all"
    /\ github_url \in DOMAIN Repositories
    /\ budget = MaxListed
    /\ Idle

NextRepository == Crawl

SpecRepository == InitRepository /\ [][NextRepository]_vars

\* the same where fetch_all_repository_files, once called, is not left standing:
\* a step of it that can be taken is taken in the end
SpecRepositoryRun ==
    SpecRepository /\ WF_vars(FetchAllStart) /\ WF_vars(WhileStep) /\ WF_vars(ForStep)


-----------------------------------------------------------------------------
(* The prompt assembler on its own: build_analysis_prompt is applied to a *)
(* CrawlResult of many files or of files with long contents               *)

\* the most files a CrawlResult given to the assembler has fetched
MaxFetched == 26

\* by how many characters the longest content exceeds PreviewChars
MaxExcess == 2

\* the decimal digits of a number below 100
Digits(i) == <<DigitChars[(i \div 10) + 1], DigitChars[(i % 10) + 1]>>

\* a text of n characters that differ along its length
Text(n) == [i \in 1..n |-> DigitChars[(i % 7) + 1]]

\* the i-th fetched file of a CrawlResult: a priority name when priority holds,
\* in a directory of its own
FetchedItem(i, priority, size, content) ==
    LET name == IF ~priority THEN <<"m","a","i","n",".","p","y">>
                ELSE IF i % 2 = 0 THEN <<"R","E","A","D","M","E",".","m","d">> ELSE <<"M","a","k","e","f","i","l","e">>
    IN  [key   |-> <<"d">> \o Digits(i) \o <<"/">> \o name,
         value |-> [content |-> content, size |-> size,
                    type |-> Lower(SplitExt(name))]]

\* which of the files carry a priority name: none (0), every m-th, or only the
\* file fetched after MaxPromptFiles others
PriorityPatterns == {0, 1, 2, 3, MaxPromptFiles + 1}

IsPriority(i, m) == m > 0 /\ i % m = 0

\* the byte sizes: all equal, ascending, descending, or mixed with ties
SizePatterns == {"equal", "ascending", "descending", "mixed"}

SizeOf(i, pattern) ==
    CASE pattern = "equal"      -> 100
      [] pattern = "ascending"  -> 10 * i
      [] pattern = "descending" -> 1000 - 10 * i
      [] pattern = "mixed"      -> ((7 * i) % 5) * 100

\* the content lengths around the limit of line 294
ContentLengths ==
    {0, PreviewChars - 1, PreviewChars, PreviewChars + 1, PreviewChars + MaxExcess}

\* the CrawlResult whose fetched files are items: every fetched file has its
\* FileRecord and its counts
CrawlResultOf(items) ==
    LET n == Len(items)
        code == {i \in 1..n : items[i].value.type \in CODE_EXTENSIONS}
    IN  [files |-> [i \in 1..n |->
                      [path |-> items[i].key, name |-> LastSegment(items[i].key),
                       size |-> items[i].value.size,
                       type |-> get_file_type(LastSegment(items[i].key))]],
         directories |-> [i \in 1..n |-> <<"d">> \o Digits(i)],
         key_files |-> items,
         statistics |->
             [total_files |-> n, code_files |-> Cardinality(code),
              analyzed_files |-> n, skipped_files |-> 0,
              languages |-> [e \in {items[i].value.type : i \in code} |->
                               Cardinality({i \in code : items[i].value.type = e})]]]

ManyFiles ==
    {CrawlResultOf([i \in 1..n |->
                      FetchedItem(i, IsPriority(i, m), SizeOf(i, sizes), Text(i % 4))]) :
        n \in 0..MaxFetched, m \in PriorityPatterns, sizes \in SizePatterns}

LongFiles ==
    {CrawlResultOf([i \in 1..Len(lengths) |->
                      FetchedItem(i, i = 2, 100 * i, Text(lengths[i]))]) :
        lengths \in [1..1 -> ContentLengths] \cup [1..2 -> ContentLengths]}

InitPrompt ==
    /\ pc = "crawled"
    /\ github_url = <<"h","t","t","p","s",":","/","/","g","i","t","h","u","b",".","c","o","m","/","a","c","m","e","/","w","i","d","g","e","t","s">>
    /\ budget = 0
    /\ NoCalls
    /\ structure \in ManyFiles \cup LongFiles
    /\ prompt_files = <<>>
    /\ NoReply

NextPrompt == BuildPrompt

SpecPrompt == InitPrompt /\ [][NextPrompt]_vars

-----------------------------------------------------------------------------
(* The response parser on its own: parse_gemini_response is applied to a *)
(* reply of the analysis call                                           *)

\* the most blocks a reply is put together from
MaxBlocks == 3

\* the headers of the Required Output Format in the prompt, lines 344-366
TemplateHeaders == <<<<"#","#","#"," ","1","."," ","O","V","E","R","V","I","E","W">>,
                     <<"#","#","#"," ","2","."," ","A","R","C","H","I","T","E","C","T","U","R","E">>,
                     <<"#","#","#"," ","3","."," ","M","O","D","U","L","E","S">>,
                     <<"#","#","#"," ","4","."," ","D","A","T","A","_","F","L","O","W">>,
                     <<"#","#","#"," ","5","."," ","D","E","S","I","G","N","_","P","A","T","T","E","R","N","S">>,
                     <<"#","#","#"," ","6","."," ","M","E","R","M","A","I","D","_","A","R","C","H","I","T","E","C","T","U","R","E","_","D","I","A","G","R","A","M">>,
                     <<"#","#","#"," ","7","."," ","M","E","R","M","A","I","D","_","D","A","T","A","_","F","L","O","W","_","D","I","A","G","R","A","M">>>>

\* pieces of a reply: header lines as the template has them, in other case, or
\* with no line end; text; a blank line; fenced blocks and their two halves
Blocks ==
    { <<"#","#","#"," ","1","."," ","O","V","E","R","V","I","E","W","\n">>,
      <<"#","#","#"," ","2","."," ","A","R","C","H","I","T","E","C","T","U","R","E","\n">>,
      <<"#","#","#"," ","3","."," ","M","O","D","U","L","E","S","\n">>,
      <<"#","#","#"," ","5","."," ","D","E","S","I","G","N","_","P","A","T","T","E","R","N","S","\n">>,
      <<"#","#","#"," ","6","."," ","M","E","R","M","A","I","D","_","A","R","C","H","I","T","E","C","T","U","R","E","_","D","I","A","G","R","A","M","\n">>,
      <<"#","#","#"," ","7","."," ","M","E","R","M","A","I","D","_","D","A","T","A","_","F","L","O","W","_","D","I","A","G","R","A","M","\n">>,
      <<"#","#","#"," ","1","."," ","o","v","e","r","v","i","e","w"," ","\n">>,
      <<"#","#","#"," ","1","."," ","O","V","E","R","V","I","E","W","\n","H","e","l","l","o","\n">>,
      <<"#","#","#"," ","2","."," ","A","R","C","H","I","T","E","C","T","U","R","E">>,
      <<"H","e","l","l","o","\n">>,
      <<"W","o","r","l","d">>,
      <<"\n">>,
      <<"BQ","BQ","BQ","m","e","r","m","a","i","d","\n","A","-","-",">","B","\n","BQ","BQ","BQ","\n">>,
      <<"BQ","BQ","BQ","m","e","r","m","a","i","d","\n">>,
      <<"BQ","BQ","BQ">> }

RECURSIVE Join(_)
Join(parts) == IF parts = <<>> THEN <<>> ELSE Head(parts) \o Join(Tail(parts))

\* replies of up to MaxBlocks pieces in any order
FreeReplies ==
    {Join(parts) : parts \in UNION {[1..n -> Blocks] : n \in 0..MaxBlocks}}

\* what a section of a template reply holds
ProseContents == { <<"H","e","l","l","o">>, <<" ","t","w","o","\n","l","i","n","e","s"," ","\n">>, <<" ">> }
DiagramContents == { <<"A","-","-",">","B">>, <<"\n","g","r","a","p","h"," ","T","D","\n"," "," ","A","-","-",">","B","\n">>, <<" ">> }

SectionContents ==
    {prose \o diagrams :
        prose \in [1..5 -> ProseContents], diagrams \in [1..2 -> DiagramContents]}

\* a section of a template reply: the header on a line of its own, the content
\* on the lines below it, a diagram's content inside a mermaid fence
TemplateSection(i, content) ==
    TemplateHeaders[i] \o <<"\n">> \o
    (IF i <= 5 THEN content \o <<"\n">>
     ELSE <<"BQ","BQ","BQ","m","e","r","m","a","i","d","\n">> \o content \o <<"\n","BQ","BQ","BQ","\n">>)

\* the seven sections in template order
TemplateReply(c) == Join([i \in 1..7 |-> TemplateSection(i, c[i])])

TemplateReplies ==
    {[text |-> TemplateReply(c), sections |-> c] : c \in SectionContents}

Replies == FreeReplies \cup {t.text : t \in TemplateReplies}

\* analyze_repository_with_ai, lines 438-439: the reply of the analysis call
\* is parsed
ParseReply ==
    /\ pc = "reply"
    /\ result' = parse_gemini_response(response_text)
    /\ pc' = "parsed"
    /\ UNCHANGED <<github_url, error, meta_calls, list_calls, fetch_calls, budget,
                   paths_to_process, processed_paths, current_path, contents,
                   structure, seen, prompt_files, response_text>>

\* the analysis call has returned with any of the replies
InitParse ==
    /\ pc = "reply"
    /\ github_url = <<"h","t","t","p","s",":","/","/","g","i","t","h","u","b",".","c","o","m","/","a","c","m","e","/","w","i","d","g","e","t","s">>
    /\ budget = 0
    /\ NoCalls
    /\ structure = EmptyStructure
    /\ prompt_files = <<>>
    /\ response_text \in Replies
    /\ result = EmptyResult

NextParse == ParseReply

SpecParse == InitParse /\ [][NextParse]_vars

\* parse_gemini_response is called once more on the reply it has parsed
ParseAgain ==
    /\ pc = "parsed"
    /\ result' = parse_gemini_response(response_text)
    /\ pc' = "reparsed"
    /\ UNCHANGED <<github_url, error, meta_calls, list_calls, fetch_calls, budget,
                   paths_to_process, processed_paths, current_path, contents,
                   structure, seen, prompt_files, response_text>>

NextParseTwice == ParseReply \/ ParseAgain

SpecParseTwice == InitParse /\ [][NextParseTwice]_vars

-----------------------------------------------------------------------------
(* Properties of the prompt assembler *)

\* the fetched file of a section
FetchedOf(section) == DictGet(structure.key_files, section.path)

EmittedPaths == {prompt_files[i].path : i \in 1..Len(prompt_files)}

\* the order of the specification: a priority-named file goes before the
\* others, a smaller file before a larger one of its group
PriorityNamed(path) == Lower(LastSegment(path)) \in PriorityNames

GoesBefore(a, b) ==
    \/ PriorityNamed(a.key) /\ ~PriorityNamed(b.key)
    \/ PriorityNamed(a.key) = PriorityNamed(b.key) /\ a.value.size < b.value.size

\* C9 (fetch cap and order): the prompt has sections for min(25, n) of the n
\* fetched files, each file at most once, in priority-then-size order, and no
\* omitted file goes before an emitted file in that order.
C9_FetchCapAndOrder ==
    pc = "prompted" =>
        LET items == structure.key_files
            n == Len(items)
        IN  /\ Len(prompt_files) <= 25
            /\ Len(prompt_files) = IF n < 25 THEN n ELSE 25
            /\ EmittedPaths \subseteq DictKeys(items)
            /\ Cardinality(EmittedPaths) = Len(prompt_files)
            /\ \A i, j \in 1..Len(prompt_files) :
                 i < j => ~GoesBefore([key |-> prompt_files[j].path,
                                       value |-> FetchedOf(prompt_files[j])],
                                      [key |-> prompt_files[i].path,
                                       value |-> FetchedOf(prompt_files[i])])
            /\ \A o, e \in 1..n :
                 (items[o].key \notin EmittedPaths /\ items[e].key \in EmittedPaths)
                     => ~GoesBefore(items[o], items[e])

\* more than 25 files were fetched, the one fetched last carries a priority
\* name and has a section, and a file fetched before it has none
C9_Witness ==
    /\ pc = "prompted"
    /\ Len(structure.key_files) > 25
    /\ Len(prompt_files) = 25
    /\ LET items == structure.key_files
           n == Len(items)
       IN  /\ PriorityNamed(items[n].key)
           /\ items[n].key \in EmittedPaths
           /\ \E o \in 1..(n - 1) :
                items[o].key \notin EmittedPaths /\ ~PriorityNamed(items[o].key)

\* the text of a section between its opening line and its closing fence
SectionBody(section) ==
    LET opening == 5 + Len(section.path) + 2 + 3 + Len(FetchedOf(section).type) + 1
    IN  SubSeq(section.text, opening + 1, Len(section.text) - 5)

-----------------------------------------------------------------------------
(* Properties of the crawl *)

Done == pc \in {"crawled", "prompted"}

FilePaths == {structure.files[i].path : i \in 1..Len(structure.files)}

DirectoryPaths == Range(structure.directories)

ListedPaths == {list_calls[i].path : i \in 1..Len(list_calls)}

\* every path the crawl has recorded or listed
RecordedPaths ==
    FilePaths \cup DirectoryPaths \cup DictKeys(structure.key_files) \cup ListedPaths

\* C1 (visit-once): in every crawl no path is passed to the remote listing call
\* more than once, however often listings return it.
C1_VisitOnce ==
    \A i, j \in 1..Len(list_calls) :
        list_calls[i].path = list_calls[j].path => i = j

\* a finished crawl in which listings returned the same directory twice, one of
\* the two by the listing of that directory itself or of a path listed after it
C1_Witness ==
    /\ Done
    /\ \E i, j \in 1..Len(seen) :
        /\ i < j
        /\ seen[i].entry = seen[j].entry
        /\ seen[i].entry.type = "dir"
        /\ seen[i].entry.path \in ListedPaths
        /\ seen[j].from # <<>>

\* the skip rule as the specification words it: a skip token is a substring of
\* the lowercased path, or the lowercased path ends in a binary or media suffix
\* every entry a listing of the modelled remotes may hold
ListedEntries ==
    Universe \cup
    UNION {UNION {Range(Repositories[url][path]) : path \in DOMAIN Repositories[url]} :
              url \in DOMAIN Repositories}

SkipEligibleOf == [path \in {e.path : e \in ListedEntries} |->
    \/ \E token \in SKIP_PATTERNS :
         \E i \in 1..Len(path) : StartsAt(Lower(path), token, i)
    \/ \E suffix \in SKIP_SUFFIXES :
         /\ Len(suffix) <= Len(path)
         /\ SubSeq(Lower(path), Len(path) - Len(suffix) + 1, Len(path)) = suffix]

SkipEligible(path) == SkipEligibleOf[path]

\* path lies below directory dir
Below(path, dir) == StartsAt(path, dir \o <<"/">>, 1) /\ Len(path) > Len(dir) + 1

\* C2 (skip monotonicity): a skip-eligible path returned by a listing is never a
\* FileRecord, a recorded directory or a fetched file and is never listed, and
\* nothing below a skip-eligible directory is.
C2_SkipMonotonicity ==
    \A i \in 1..Len(seen) :
        SkipEligible(seen[i].entry.path) =>
            /\ seen[i].entry.path \notin RecordedPaths
            /\ \A k \in 1..Len(fetch_calls) : fetch_calls[k].path # seen[i].entry.path
            /\ \A p \in RecordedPaths : ~Below(p, seen[i].entry.path)

\* a finished crawl whose listings returned a skip-eligible directory, a file
\* below it, and a file skipped for its suffix alone
C2_Witness ==
    /\ Done
    /\ \E i, j, k \in 1..Len(seen) :
        /\ seen[i].entry.type = "dir" /\ SkipEligible(seen[i].entry.path)
        /\ Below(seen[j].entry.path, seen[i].entry.path)
        /\ seen[k].entry.type = "file"
        /\ \E suffix \in SKIP_SUFFIXES : EndsWith(Lower(seen[k].entry.path), suffix)
    /\ structure.statistics.skipped_files = 3

\* C5 (local recovery): no listing failure and no fetch failure aborts the
\* crawl.  A path whose listing fails has no children taken up, and every
\* recorded directory is still listed by the end; a failed fetch adds nothing to
\* the fetched map and nothing to analyzed_files, while the file keeps its
\* FileRecord and its count in total_files.
C5_LocalRecovery ==
    /\ pc # "returned" /\ error = "none"
    /\ \A i \in 1..Len(list_calls) :
         ~list_calls[i].ok =>
           /\ \A k \in 1..Len(seen) : seen[k].from # list_calls[i].path
           /\ (i = Len(list_calls) => contents = <<>>)
    /\ Done => DirectoryPaths \subseteq ListedPaths
    /\ DictKeys(structure.key_files) =
         {fetch_calls[k].path : k \in {n \in 1..Len(fetch_calls) : fetch_calls[n].ok}}
    /\ structure.statistics.analyzed_files =
         Cardinality({k \in 1..Len(fetch_calls) : fetch_calls[k].ok})
    /\ \A k \in 1..Len(fetch_calls) : fetch_calls[k].path \in FilePaths
    /\ structure.statistics.total_files = Len(structure.files)
    /\ Len(structure.files) =
         Cardinality({k \in 1..Len(seen) :
             seen[k].entry.type = "file" /\ ~SkipEligible(seen[k].entry.path)})

\* a finished crawl in which a listing failed, a directory queued behind the
\* failing one was listed all the same, and the fetch of a file of it failed
C5_Witness ==
    /\ Done
    /\ \E i, j \in 1..Len(list_calls) :
         /\ i < j /\ ~list_calls[i].ok /\ list_calls[j].ok
         /\ \E k \in 1..Len(seen) : seen[k].from = list_calls[j].path
    /\ \E k \in 1..Len(fetch_calls) :
         /\ ~fetch_calls[k].ok
         /\ fetch_calls[k].path \in FilePaths
         /\ fetch_calls[k].path \notin DictKeys(structure.key_files)
    /\ structure.statistics.total_files = 1
    /\ structure.statistics.analyzed_files = 0

-----------------------------------------------------------------------------
(* Properties of the pipeline *)

\* C3 (RepositoryNotFound): when the repository-metadata call is answered with
\* a status other than 200, the pipeline stops with the generic not-accessible
\* signal, and no listing call and no content fetch is issued.
C3_RepositoryNotFound ==
    \A i \in 1..Len(meta_calls) :
        (~meta_calls[i].response.raised /\ meta_calls[i].response.status_code # 200) =>
            /\ pc = "returned"
            /\ error = "not_accessible"
            /\ list_calls = <<>>
            /\ fetch_calls = <<>>

\* https://github.com/acme/widgets was looked up and answered 404
C3_Witness ==
    /\ github_url = <<"h","t","t","p","s",":","/","/","g","i","t","h","u","b",".","c","o","m","/","a","c","m","e","/","w","i","d","g","e","t","s">>
    /\ Len(meta_calls) = 1
    /\ meta_calls[1].url = <<"h","t","t","p","s",":","/","/","a","p","i",".","g","i","t","h","u","b",".","c","o","m","/","r","e","p","o","s","/","a","c","m","e","/","w","i","d","g","e","t","s">>
    /\ meta_calls[1].response = [raised |-> FALSE, status_code |-> 404]
    /\ pc = "returned"

\* C4 (InvalidLocation): for a URL that is not of the shape host/owner/repo on
\* github.com, or whose owner or repository name has a character outside
\* [a-zA-Z0-9-_.], the pipeline stops before any network call is made.
C4_InvalidLocation ==
    ~validate_github_url(github_url) =>
        /\ meta_calls = <<>>
        /\ list_calls = <<>>
        /\ fetch_calls = <<>>
        /\ pc \in {"main", "returned"}

-----------------------------------------------------------------------------
(* Properties of the response parser *)

Parsed == pc = "parsed"

LowerReply == SubSeq(Lower(response_text), 1, Len(response_text))

\* header i stands at position p of the reply, in any case, with nothing but
\* whitespace between it and a line end
HeaderLineAt(lower, i, p) ==
    /\ StartsAt(lower, LowerHeaders[i], p)
    /\ \E q \in (p + Len(Headers[i]))..Len(response_text) :
          /\ response_text[q] = "\n"
          /\ \A j \in (p + Len(Headers[i]))..(q - 1) : response_text[j] \in WhiteSpace

\* pattern i of the parser matches somewhere in the reply.  A prose pattern
\* needs its header line only; a diagram pattern needs the opening fence at
\* the start of the line after the header's whitespace, a line end after the
\* fence's whitespace, and a closing fence at the start of a later line
MatchesAt(lower, i, p) ==
    /\ HeaderLineAt(lower, i, p)
    /\ i >= 6 =>
          \E q \in (p + Len(Headers[i]))..Len(response_text) :
             /\ response_text[q] = "\n"
             /\ \A j \in (p + Len(Headers[i]))..(q - 1) : response_text[j] \in WhiteSpace
             /\ StartsAt(lower, LowerFenceOpen, q + 1)
             /\ \E r \in (q + 1 + Len(FenceOpen))..Len(response_text) :
                   /\ response_text[r] = "\n"
                   /\ \A j \in (q + 1 + Len(FenceOpen))..(r - 1) :
                         response_text[j] \in WhiteSpace
                   /\ \E e \in (r + 1)..Len(response_text) :
                         StartsAt(response_text, FenceClose, e)

\* the positions at which a header can begin
HeaderStarts(lower) == {p \in 1..Len(lower) : lower[p] = "#"}

Matches(lower, i) == \E p \in HeaderStarts(lower) : MatchesAt(lower, i, p)

MatchesNone == LET lower == LowerReply IN \A i \in 1..7 : ~Matches(lower, i)

OnlyOverview(text) == [EmptyResult EXCEPT !.overview = text]

\* C6 (fallback coverage): once a reply that matches none of the seven header
\* patterns is parsed, overview is the whole reply, character for character,
\* and the six other fields are empty
C6_FallbackCoverage ==
    (Parsed /\ MatchesNone) => result = OnlyOverview(response_text)

\* a reply that names a header and begins or ends with whitespace, but matches
\* no pattern, has been parsed into its fallback
C6_Witness ==
    /\ Parsed
    /\ MatchesNone
    /\ \E i \in 1..7 : Contains(response_text, Headers[i])
    /\ Strip(response_text) # response_text
    /\ result = OnlyOverview(response_text)

\* the first header line of prose section i and the text of the section: what
\* stands between that header and the first header of section i + 1 behind it,
\* or the end of the reply when no such header is there, trimmed
SectionHeads(lower, i) == {p \in HeaderStarts(lower) : HeaderLineAt(lower, i, p)}

SectionText(lower, i) ==
    LET from  == Least(SectionHeads(lower, i)) + Len(Headers[i])
        nexts == {q \in HeaderStarts(lower) :
                     q >= from /\ StartsAt(lower, LowerHeaders[i + 1], q)}
        upto  == IF nexts = {} THEN Len(response_text) ELSE Least(nexts) - 1
    IN  Strip(SubSeq(response_text, from, upto))

\* the five prose sections of the reply
Sections ==
    LET lower == LowerReply
    IN  SubSeq([i \in 1..5 |->
                  IF SectionHeads(lower, i) = {}
                  THEN [present |-> FALSE, text |-> <<>>]
                  ELSE [present |-> TRUE, text |-> SectionText(lower, i)]], 1, 5)

\* the reply of the scenario and what it is parsed into
ScenarioReply == <<"#","#","#"," ","1","."," ","O","V","E","R","V","I","E","W","\n","H","e","l","l","o","\n","#","#","#"," ","2","."," ","A","R","C","H","I","T","E","C","T","U","R","E","\n","W","o","r","l","d">>

ScenarioResult ==
    [EmptyResult EXCEPT !.overview = <<"H","e","l","l","o">>, !.architecture = <<"W","o","r","l","d">>]

ScenarioHolds == (Parsed /\ response_text = ScenarioReply) => result = ScenarioResult

\* every prose section with a header line is empty, and so is every diagram
NothingExtracted(sections) ==
    /\ \A i \in 1..5 : sections[i].text = <<>>
    /\ result.architecture_diagram = <<>>
    /\ result.data_flow_diagram = <<>>

SectionsOf(text) == (CHOOSE t \in TemplateReplies : t.text = text).sections

IsTemplateReply(text) == \E t \in TemplateReplies : t.text = text

\* C8 (template round trip): once a reply made of the seven template headers
\* in order, each followed by its content, the diagrams inside mermaid fences,
\* is parsed, every field is the trimmed content of its own section and the
\* fallback was not taken
C8_TemplateRoundTrip ==
    (Parsed /\ IsTemplateReply(response_text)) =>
        LET contents_of == SectionsOf(response_text)
        IN  /\ \A i \in 1..7 : result[Fields[i]] = Strip(contents_of[i])
            /\ result.overview # response_text

\* the round trip of the template replies whose first diagram is not blank
TemplateRoundTripOfDrawnDiagram ==
    (/\ Parsed
     /\ IsTemplateReply(response_text)
     /\ Strip(SectionsOf(response_text)[6]) # <<>>) =>
        LET contents_of == SectionsOf(response_text)
        IN  /\ \A i \in 1..7 : result[Fields[i]] = Strip(contents_of[i])
            /\ result.overview # response_text

-----------------------------------------------------------------------------
(* Properties of the crawl of a repository of known content *)

\* every listing and every fetch so far was answered 200
AllAnswered ==
    /\ \A i \in 1..Len(list_calls) : list_calls[i].ok
    /\ \A i \in 1..Len(fetch_calls) : fetch_calls[i].ok

\* C11 (scenario crawl): for the repository of src/app.py (200 bytes),
\* test/foo.py (200 bytes) and README.md (500 bytes), answered throughout, the
\* crawl has FileRecords for src/app.py and README.md only, skipped_files
\* counts the skipped test subtree once, test/foo.py is neither recorded nor
\* fetched, README.md is fetched, and README.md is the first file section of
\* the prompt although it is the larger file
C11_ScenarioCrawl ==
    (github_url = ScenarioUrl /\ pc = "prompted" /\ AllAnswered) =>
        /\ FilePaths = { <<"s","r","c","/","a","p","p",".","p","y">>, <<"R","E","A","D","M","E",".","m","d">> }
        /\ Len(structure.files) = 2
        /\ structure.statistics.skipped_files = 1
        /\ <<"t","e","s","t","/","f","o","o",".","p","y">> \notin RecordedPaths
        /\ \A i \in 1..Len(fetch_calls) : fetch_calls[i].path # <<"t","e","s","t","/","f","o","o",".","p","y">>
        /\ <<"R","E","A","D","M","E",".","m","d">> \in DictKeys(structure.key_files)
        /\ Len(prompt_files) = 2
        /\ prompt_files[1].path = <<"R","E","A","D","M","E",".","m","d">>
        /\ prompt_files[2].path = <<"s","r","c","/","a","p","p",".","p","y">>
        /\ DictGet(structure.key_files, <<"R","E","A","D","M","E",".","m","d">>).size
             > DictGet(structure.key_files, <<"s","r","c","/","a","p","p",".","p","y">>).size

\* the scenario's repository has been crawled, every call answered, the root
\* listing returned README.md last, and the prompt is assembled
C11_Witness ==
    /\ github_url = ScenarioUrl
    /\ pc = "prompted"
    /\ AllAnswered
    /\ Len(list_calls) = 2
    /\ Len(seen) = 4
    /\ seen[3].entry.path = <<"R","E","A","D","M","E",".","m","d">>
    /\ prompt_files[1].path = <<"R","E","A","D","M","E",".","m","d">>

-----------------------------------------------------------------------------
(* Further properties of the response parser *)

\* v is a string made of characters of the reply
IsReplyString(v) ==
    /\ DOMAIN v = 1..Len(v)
    /\ Range(v) \subseteq Range(response_text)

\* the fields whose pattern matches nowhere in the reply
Unmatched == LET lower == LowerReply IN {i \in 1..7 : ~Matches(lower, i)}

\* C12 as stated (seven fields always present): once a reply is parsed, the
\* result has exactly the seven fields, each a string, and a field whose
\* pattern did not match is empty
C12_SevenFieldsAsStated ==
    Parsed =>
        /\ DOMAIN result = Range(Fields)
        /\ \A i \in 1..7 : IsReplyString(result[Fields[i]])
        /\ \A i \in Unmatched : result[Fields[i]] = <<>>

\* C12 (seven fields always present, amended): the same, but overview, when
\* its pattern did not match, is either empty or, no field having extracted
\* anything, the whole reply
C12_SevenFields ==
    Parsed =>
        /\ DOMAIN result = Range(Fields)
        /\ \A i \in 1..7 : IsReplyString(result[Fields[i]])
        /\ \A i \in Unmatched :
              \/ result[Fields[i]] = <<>>
              \/ i = 1 /\ result = OnlyOverview(response_text)

\* a reply has been parsed in which a diagram and a prose field were matched
\* and extracted while other fields, overview among them, were not matched
C12_Witness ==
    /\ Parsed
    /\ {1, 3, 7} \subseteq Unmatched
    /\ {2, 6} \cap Unmatched = {}
    /\ result.architecture # <<>>
    /\ result.architecture_diagram # <<>>
    /\ result.overview = <<>>


C13_WitnessFallback ==
    /\ pc = "reparsed"
    /\ response_text # <<>>
    /\ result = OnlyOverview(response_text)

-----------------------------------------------------------------------------
(* Further properties of the crawl *)

\* the file entries the for loop has taken up that are not skip-eligible
FileEncounters ==
    {k \in 1..Len(seen) :
        seen[k].entry.type = "file" /\ ~SkipEligible(seen[k].entry.path)}

\* the fetch rule as the specification words it
FetchEligible(entry) ==
    \/ Lower(entry.name) \in PRIORITY_FILES
    \/ Lower(SplitExt(entry.name)) \in CODE_EXTENSIONS
    \/ entry.size < 100000

FetchedPaths == {fetch_calls[i].path : i \in 1..Len(fetch_calls)}

\* C14 (fetch eligibility): a fetch is attempted for a non-skipped file entry
\* if and only if its lowercased name is a priority name, its extension is a
\* code extension or its size is below 100000 bytes, once for every time the
\* entry is encountered; a file that is none of these is never requested and
\* never in the fetched map
C14_FetchEligibility ==
    /\ \A k \in FileEncounters :
          /\ seen[k].entry.path \in FetchedPaths <=> FetchEligible(seen[k].entry)
          /\ ~FetchEligible(seen[k].entry) =>
                seen[k].entry.path \notin DictKeys(structure.key_files)
    /\ Len(fetch_calls) =
          Cardinality({k \in FileEncounters : FetchEligible(seen[k].entry)})

\* a finished crawl that met a file fetched for its priority name alone, one
\* fetched for its size alone, and one of 100000 bytes that was recorded but
\* not requested
C14_Witness ==
    /\ Done
    /\ \E i, j, k \in FileEncounters :
          /\ seen[i].entry.path = <<"L","I","C","E","N","S","E">>
          /\ seen[j].entry.path = <<"n","o","t","e","s">>
          /\ seen[k].entry.path = <<"d","a","t","a",".","b","i","n">>
    /\ <<"d","a","t","a",".","b","i","n">> \in FilePaths
    /\ FetchedPaths = { <<"L","I","C","E","N","S","E">>, <<"n","o","t","e","s">> }

\* the same for a file fetched for its code extension alone
C14_WitnessExtension ==
    /\ Done
    /\ \E i \in FileEncounters :
          /\ seen[i].entry.path = <<"s","r","c","/","a","p","p",".","p","y">>
          /\ seen[i].entry.size >= 100000
    /\ <<"s","r","c","/","a","p","p",".","p","y">> \in FetchedPaths


\* the skip-eligible entries the for loop has taken up, one for each time a
\* listing returned one
SkippedEncounters == {k \in 1..Len(seen) : SkipEligible(seen[k].entry.path)}

\* C15 (skipped count): skipped_files is the number of skip-eligible entries
\* met in listings so far, and so at the end of the crawl, each met entry
\* counted once; a skip-eligible directory counts 1 and is never listed, so
\* nothing is met below it and nothing is counted for what lies below it
C15_SkippedCount ==
    /\ structure.statistics.skipped_files = Cardinality(SkippedEncounters)
    /\ \A k \in SkippedEncounters : seen[k].entry.path \notin ListedPaths

\* a finished crawl that met a skip-eligible directory, a skip-eligible file
\* and an entry that is not skip-eligible, and counted 2
C15_Witness ==
    /\ Done
    /\ \E i, j \in SkippedEncounters :
          /\ seen[i].entry.type = "dir"
          /\ seen[j].entry.type = "file"
    /\ \E k \in 1..Len(seen) : k \notin SkippedEncounters
    /\ structure.statistics.skipped_files = 2


-----------------------------------------------------------------------------
(* Further properties of the crawl of a repository of known content *)

\* C16 (termination): the crawl of a remote whose listings return paths of a
\* finite set, among them a path already visited and directories that list
\* each other, eventually empties its queue and returns its CrawlResult
C16_Termination == <>(Done /\ paths_to_process = <<>>)

\* the crawl of the repository whose directories list each other has returned:
\* it met the same directory more than once, once from a listing below the
\* root, and listed it once
C16_Witness ==
    /\ github_url = CycleUrl
    /\ Done
    /\ paths_to_process = <<>>
    /\ AllAnswered
    /\ \E i, j \in 1..Len(seen) :
          /\ i < j
          /\ seen[i].entry.path = seen[j].entry.path
          /\ seen[j].from # <<>>
          /\ seen[i].entry.path \in ListedPaths


\* the paths listed so far, in the order of their listing
ListOrder == [i \in 1..Len(list_calls) |-> list_calls[i].path]

\* the positions in seen of the directories that were put on the queue
Enqueued ==
    {k \in 1..Len(seen) :
        seen[k].entry.type = "dir" /\ ~SkipEligible(seen[k].entry.path)}

\* the positions at which a directory was put on the queue for the first time
FirstEnqueued ==
    {k \in Enqueued : \A j \in 1..(k - 1) : seen[j].entry.path # seen[k].entry.path}

RECURSIVE PathsAt(_, _)
PathsAt(ks, from) ==
    IF from > Len(seen) THEN <<>>
    ELSE (IF from \in ks THEN <<seen[from].entry.path>> ELSE <<>>)
         \o PathsAt(ks, from + 1)

\* the root, then the directories in the order of their first enqueue
EnqueueOrder == << <<>> >> \o PathsAt(FirstEnqueued, 1)

\* the number of directories above a path: 0 for the root
Depth(path) ==
    IF path = <<>> THEN 0
    ELSE 1 + Cardinality({i \in 1..Len(path) : path[i] = "/"})

\* the repositories in which every path is returned by the listing of its
\* parent directory and by no other
TreeShaped == {ScenarioUrl, TreeUrl}

\* the position in the order of listing of a listed path
ListedAt(path) == CHOOSE i \in 1..Len(list_calls) : list_calls[i].path = path

\* C17 (breadth-first order): the directories are listed in the order in which
\* they were first put on the queue, the root first; in a tree-shaped
\* repository a directory of depth d+1 is listed only after every directory of
\* depth d that was not skipped; directories returned by the same listing are
\* listed in the order in which it returned them
C17_BreadthFirst ==
    /\ Len(ListOrder) <= Len(EnqueueOrder)
    /\ ListOrder = SubSeq(EnqueueOrder, 1, Len(ListOrder))
    /\ github_url \in TreeShaped =>
          \A j \in 1..Len(list_calls) : \A k \in Enqueued :
              Depth(seen[k].entry.path) + 1 = Depth(list_calls[j].path) =>
                  \E i \in 1..(j - 1) : list_calls[i].path = seen[k].entry.path
    /\ \A a, b \in FirstEnqueued :
          (/\ a < b
           /\ seen[a].from = seen[b].from
           /\ seen[a].entry.path \in ListedPaths
           /\ seen[b].entry.path \in ListedPaths)
              => ListedAt(seen[a].entry.path) < ListedAt(seen[b].entry.path)

\* the crawl of the repository of depth 3 has returned: the listing of the root
\* returned lib before app, and the order of listing was the root, lib, app,
\* lib/util, app/api
C17_Witness ==
    /\ github_url = TreeUrl
    /\ Done
    /\ ListOrder = << <<>>, <<"l","i","b">>, <<"a","p","p">>, <<"l","i","b","/","u","t","i","l">>, <<"a","p","p","/","a","p","i">> >>
    /\ seen[1].entry.path = <<"l","i","b">>


-----------------------------------------------------------------------------
(* Properties of the statistics of the crawl *)

\* os.path.splitext(name)[1].lower() of a FileRecord
ExtensionOf(record) == Lower(SplitExt(record.name))

RecordsWith(e) ==
    {i \in 1..Len(structure.files) : ExtensionOf(structure.files[i]) = e}

RecordedExtensions ==
    {ExtensionOf(structure.files[i]) : i \in 1..Len(structure.files)}

\* the histogram read as languages.get(e, 0)
HistogramCount(e) ==
    IF e \in DOMAIN structure.statistics.languages
    THEN structure.statistics.languages[e] ELSE 0

\* the extension histogram as stated: at the end of the crawl the count of
\* each extension is the number of FileRecords of that extension
C18_ExtensionHistogramAsStated ==
    Done =>
        \A e \in RecordedExtensions \cup DOMAIN structure.statistics.languages :
            HistogramCount(e) = Cardinality(RecordsWith(e))

\* C18 (extension histogram): the histogram is updated for the non-skipped
\* file entries whose extension is a code extension and for no other: the count
\* of a code extension is the number of FileRecords of that extension, no other
\* extension has a count, and the counts add up to the code-file counter
C18_ExtensionHistogram ==
    /\ DOMAIN structure.statistics.languages = RecordedExtensions \cap CODE_EXTENSIONS
    /\ \A e \in RecordedExtensions :
          HistogramCount(e) =
              IF e \in CODE_EXTENSIONS THEN Cardinality(RecordsWith(e)) ELSE 0
    /\ structure.statistics.code_files =
          Cardinality(UNION {RecordsWith(e) : e \in RecordedExtensions \cap CODE_EXTENSIONS})

\* a finished crawl with two FileRecords of one code extension, counted 2, and
\* a FileRecord whose extension is not a code extension and has no count
C18_Witness ==
    /\ Done
    /\ \E e \in RecordedExtensions :
          e \in CODE_EXTENSIONS /\ HistogramCount(e) = 2
    /\ \E e \in RecordedExtensions :
          e \notin CODE_EXTENSIONS /\ HistogramCount(e) = 0
    /\ structure.statistics.total_files = 3
    /\ structure.statistics.code_files = 2


-----------------------------------------------------------------------------
(* Properties of the diagram fields of the response parser *)

DiagramFields == {6, 7}

NewLine == <<"\n">>

\* a line that closes a fenced block begins at c + 1: three backquotes and
\* nothing but the line end or white space after them
ClosingFenceAt(text, c) ==
    /\ StartsAt(text, FenceClose, c)
    /\ \/ c + Len(FenceClose) > Len(text)
       \/ text[c + Len(FenceClose)] \in WhiteSpace

\* the end of the line that holds position q, 0 when the text ends first
LineEnd(text, q) ==
    LET ends == {e \in q..Len(text) : text[e] = NewLine[1]}
    IN  IF ends = {} THEN 0 ELSE Least(ends)

\* the closing fences of a block opened at q
ClosingFences(text, q) ==
    LET e == LineEnd(text, q + Len(FenceOpen))
    IN  IF e = 0 THEN {} ELSE {c \in e..Len(text) : ClosingFenceAt(text, c)}

\* the mermaid fenced blocks that open, at the start of a line, at or after
\* position p
FencedBlocksFrom(text, p) ==
    {q \in p..Len(text) :
        /\ StartsAt(text, FenceOpen, q)
        /\ q = 1 \/ text[q - 1] = NewLine[1]
        /\ ClosingFences(text, q) # {}}

\* the lines between the opening line of the block at q and its closing fence
FencedContent(text, q) ==
    SubSeq(text, LineEnd(text, q + Len(FenceOpen)) + 1,
                 Least(ClosingFences(text, q)) - 1)

\* the diagram field i as the specification words it: the trimmed content of
\* the first fenced block after the header, whatever stands between the two
DiagramAsStated(text, i) ==
    LET hs == {p \in 1..Len(text) : StartsAt(text, Headers[i], p)}
    IN  IF hs = {} THEN NoGroup
        ELSE LET blocks == FencedBlocksFrom(text, Least(hs) + Len(Headers[i]))
             IN  IF blocks = {} THEN NoGroup
                 ELSE [matched |-> TRUE,
                       group |-> Strip(FencedContent(text, Least(blocks)))]

\* C19 (diagram extraction): when the reply holds the header of a diagram
\* field and a mermaid fenced block somewhere after it, the field is the
\* trimmed content of the first such block up to its closing fence, also when
\* other text stands between the header and the block
C19_DiagramExtraction ==
    Parsed =>
        \A i \in DiagramFields :
            DiagramAsStated(response_text, i).matched =>
                result[Fields[i]] = DiagramAsStated(response_text, i).group


-----------------------------------------------------------------------------
(* Properties of the traversal queue *)

\* the queue holds the root and paths that are not skip-eligible
QueueHoldsNoSkipped ==
    \A i \in 1..Len(paths_to_process) :
        paths_to_process[i] # <<>> => ~SkipEligible(paths_to_process[i])

\* skipped_files is incremented by this step
SkippedCounted ==
    structure'.statistics.skipped_files # structure.statistics.skipped_files

\* C20 (queue holds no skipped path): in every state of a crawl the queue
\* holds only the root and paths that are not skip-eligible, so the skip test
\* made when a path is taken from the queue never succeeds, and skipped_files
\* is incremented only by a step of the for loop over the children of a listing
C20_QueueHoldsNoSkipped ==
    /\ []QueueHoldsNoSkipped
    /\ [][SkippedCounted => pc = "for"]_vars

\* the for loop has counted a skip-eligible directory of the listing as
\* skipped and put another directory of the same listing on the queue
C20_Witness ==
    /\ pc \in {"for", "while"}
    /\ \E k \in SkippedEncounters : seen[k].entry.type = "dir"
    /\ \E i \in 1..Len(paths_to_process) : paths_to_process[i] # <<>>
    /\ structure.statistics.skipped_files >= 1


-----------------------------------------------------------------------------
(* Properties of the counters of fetched and recorded files *)

\* C21 (counters match the collections): at the end of a crawl analyzed_files
\* is the number of entries of key_files and total_files is the number of
\* FileRecords, also when listings return the same file path more than once
C21_CountersMatchCollections ==
    Done =>
        /\ structure.statistics.analyzed_files = Len(structure.key_files)
        /\ structure.statistics.total_files = Len(structure.files)


-----------------------------------------------------------------------------
(* Properties of the priority names *)

\* the file entries of the root listing met so far whose lowercased name is a
\* priority name
PriorityEncounters ==
    {k \in 1..Len(seen) :
        /\ seen[k].from = <<>>
        /\ seen[k].entry.type = "file"
        /\ Lower(seen[k].entry.name) \in PRIORITY_FILES}

\* C22 (priority names are not skipped): no priority name is skip-eligible,
\* that is, every file entry of the root listing whose lowercased name is a
\* priority name gets a FileRecord and a fetch attempt and is not counted as
\* skipped
C22_PriorityNeverSkipped ==
    \A k \in PriorityEncounters :
        /\ seen[k].entry.path \in FilePaths
        /\ seen[k].entry.path \in FetchedPaths
        /\ k \notin SkippedEncounters


-----------------------------------------------------------------------------
(* Properties of the prose fields of the response parser *)

\* the fields hold what the patterns extracted: the fallback did not fill
\* overview with the whole reply
Extracted == result # OnlyOverview(response_text)

\* C23 (no header of another section in a prose field): once a reply in which
\* at least one pattern matches is parsed, no extracted prose field holds the
\* numbered header of another section; when the reply leaves a section out,
\* the text of the later sections is not part of the field of an earlier one
C23_NoForeignHeader ==
    (Parsed /\ ~MatchesNone /\ Extracted) =>
        \A i \in 1..5 : \A j \in 1..7 :
            j # i => ~Contains(result[Fields[i]], Headers[j])

=============================================================================
